---- MODULE Spec2Model ----
(***************************************************************************)
(* A model of the python-template application: the frozen Config           *)
(* dataclass and load_config (src/config.py), the helpers format_message   *)
(* and validate_config (src/utils.py) and the entry point main             *)
(* (src/main.py).                                                          *)
(*                                                                         *)
(* Python values are tagged records, so that values of different Python   *)
(* types can be held by one variable: [bool |-> b], [int |-> n],           *)
(* [str |-> s] and [none |-> TRUE].                                        *)
(***************************************************************************)
EXTENDS Integers, Sequences, FiniteSets, TLC

VARIABLES
    heap,        \* the Config instances constructed so far, by reference
    origin,      \* origin[i]: the callable that built heap[i]: "Config" or "load_config"
    op,          \* the last call made: its name and arguments
    ret,         \* the value returned by the last call (a tagged Python value)
    exc,         \* the exception raised by the last call, "None" when it returned
    mapping,     \* the dict handed to validate_config
    main_pc,     \* the line main() is about to execute
    main_config, \* main's local 'config': a reference into heap, NoRef while unbound
    message,     \* main's local 'message'
    stdout,      \* the lines written to standard output
    exit_code    \* the exit status of the process, -1 while it has not exited

vars == <<heap, origin, op, ret, exc, mapping, main_pc, main_config, message,
          stdout, exit_code>>

configVars == <<heap, origin>>
mainVars == <<main_pc, main_config, message, stdout, exit_code>>

-----------------------------------------------------------------------------
(* Bounds *)

\* the number of Config instances built besides the one main() loads
MaxObjs == 1

\* the longest message and prefix handed to format_message
MaxLen == 2

-----------------------------------------------------------------------------
(* Python values *)

PyBool(b) == [bool |-> b]
PyInt(n) == [int |-> n]
PyStr(s) == [str |-> s]
PyNone == [none |-> TRUE]

\* the exception classes involved, each with its direct base class
ExcBase == [FrozenInstanceError |-> "AttributeError",
            AttributeError |-> "Exception",
            Exception |-> "BaseException"]

RECURSIVE IsSubclass(_, _)
IsSubclass(cls, base) ==
    IF cls = base THEN TRUE
    ELSE IF cls \in DOMAIN ExcBase THEN IsSubclass(ExcBase[cls], base)
    ELSE FALSE

-----------------------------------------------------------------------------
(* src/config.py *)

Fields == {"debug", "environment", "port", "host"}

\* the declared defaults of the four fields
Default ==
    [debug |-> FALSE, environment |-> "development", port |-> 8000,
     host |-> "127.0.0.1"]

\* the values of the Literal annotation of 'environment'
EnvironmentLiteral == {"development", "staging", "production"}

\* @dataclass(frozen=True)
frozen_mut_off == FALSE
frozen == TRUE

\* the arguments a caller may pass for each field; "test" is the environment
\* of the test suite's sample configuration
ArgValues ==
    [debug |-> {TRUE},
     environment |-> EnvironmentLiteral \cup {"test"},
     port |-> {9000},
     host |-> {"0.0.0.0"}]

\* keyword arguments: a function from the supplied field names to their
\* values, each value of the type its field declares
KwArgs ==
    {[f \in S |-> full[f]] :
        full \in [debug : ArgValues.debug, environment : ArgValues.environment,
                  port : ArgValues.port, host : ArgValues.host],
        S \in SUBSET Fields}

\* the generated __init__: each field takes its argument, or its default
Config__init__mut_shift(kw) ==
    [debug |-> IF "debug" \in DOMAIN kw THEN kw["debug"] ELSE Default.debug,
     environment |-> IF "environment" \in DOMAIN kw THEN kw["environment"]
                     ELSE Default.environment,
     port |-> IF "port" \in DOMAIN kw THEN kw["port"] ELSE Default.port,
     host |-> IF "host" \in DOMAIN kw \/ "port" \in DOMAIN kw THEN "0.0.0.0"
              ELSE Default.host]
Config__init__(kw) ==
    [debug |-> IF "debug" \in DOMAIN kw THEN kw["debug"] ELSE Default.debug,
     environment |-> IF "environment" \in DOMAIN kw THEN kw["environment"]
                     ELSE Default.environment,
     port |-> IF "port" \in DOMAIN kw THEN kw["port"] ELSE Default.port,
     host |-> IF "host" \in DOMAIN kw THEN kw["host"] ELSE Default.host]

is_production_mut_not_dev(self) == self.environment # "development"
is_production(self) == self.environment = "production"

load_config_mut_prod == Config__init__([f \in {"environment"} |-> "production"])
load_config == Config__init__(<< >>)

\* References: the instance main loads has reference MainRef, the instances
\* built by other callers have the references 1, 2, ...
NoRef == -1
MainRef == 0
Others == DOMAIN heap \ {MainRef}
NewRef == Cardinality(Others) + 1

\* the values the callers try to assign to each field
AssignValues ==
    [debug |-> {TRUE}, environment |-> {"production"}, port |-> {9000},
     host |-> {"0.0.0.0"}]

\* Config(**kw)
NewConfig ==
    /\ Cardinality(Others) < MaxObjs
    /\ \E kw \in KwArgs :
        /\ heap' = heap @@ (NewRef :> Config__init__(kw))
        /\ origin' = origin @@ (NewRef :> "Config")
        /\ op' = [name |-> "Config", kwargs |-> kw, ref |-> NewRef]
        /\ ret' = PyNone
        /\ exc' = "None"
    /\ UNCHANGED <<mapping, mainVars>>

\* load_config()
LoadConfig ==
    /\ Cardinality(Others) < MaxObjs
    /\ heap' = heap @@ (NewRef :> load_config)
    /\ origin' = origin @@ (NewRef :> "load_config")
    /\ op' = [name |-> "load_config", ref |-> NewRef]
    /\ ret' = PyNone
    /\ exc' = "None"
    /\ UNCHANGED <<mapping, mainVars>>

\* heap[i].is_production()
IsProduction ==
    /\ \E i \in DOMAIN heap :
        /\ op' = [name |-> "is_production", ref |-> i]
        /\ ret' = PyBool(is_production(heap[i]))
        /\ exc' = "None"
    /\ UNCHANGED <<configVars, mapping, mainVars>>

\* heap[i].f = v: the generated __setattr__ of a frozen dataclass raises
\* FrozenInstanceError; that of a plain dataclass stores the value
SetAttr ==
    /\ \E i \in DOMAIN heap, f \in Fields :
        \E v \in AssignValues[f] :
            /\ op' = [name |-> "__setattr__", ref |-> i, field |-> f, value |-> v]
            /\ ret' = PyNone
            /\ IF frozen
               THEN /\ exc' = "FrozenInstanceError"
                    /\ heap' = heap
               ELSE /\ exc' = "None"
                    /\ heap' = [heap EXCEPT ![i] = [heap[i] EXCEPT ![f] = v]]
    /\ UNCHANGED <<origin, mapping, mainVars>>

-----------------------------------------------------------------------------
(* src/utils.py *)

\* the characters of the strings handed to format_message
Alphabet == {"a", ":", " "}

RECURSIVE StringsUpTo(_)
StringsUpTo(n) ==
    IF n = 0 THEN {""}
    ELSE LET S == StringsUpTo(n - 1) IN S \cup {s \o c : s \in S, c \in Alphabet}

Strings == StringsUpTo(MaxLen)

\* the arguments of format_message besides 'message': 'prefix' or nothing
PrefixArgs == {<< >>} \cup {[k \in {"prefix"} |-> p] : p \in Strings}

\* f"{prefix}: {message}", 'prefix' defaulting to "INFO"
format_message_mut_nospace(msg, kw) ==
    LET prefix == IF "prefix" \in DOMAIN kw THEN kw["prefix"] ELSE "INFO"
    IN  prefix \o ":" \o msg
format_message(msg, kw) ==
    LET prefix == IF "prefix" \in DOMAIN kw THEN kw["prefix"] ELSE "INFO"
    IN  prefix \o ": " \o msg

required_keys == {"debug", "port"}

\* all(key in config for key in required_keys)
validate_config_mut_any(config) == \E key \in required_keys : key \in DOMAIN config
validate_config_mut_exact(config) == DOMAIN config = required_keys
validate_config(config) == \A key \in required_keys : key \in DOMAIN config

\* the keys and values of the dicts handed to validate_config
Keys == required_keys \cup {"extra"}
Values == {PyBool(TRUE), PyInt(8000), PyStr("value"), PyNone}

\* format_message(msg, **kw)
FormatMessage ==
    /\ \E msg \in Strings, kw \in PrefixArgs :
        /\ op' = [name |-> "format_message", message |-> msg, kwargs |-> kw]
        /\ ret' = PyStr(format_message(msg, kw))
        /\ exc' = "None"
    /\ UNCHANGED <<configVars, mapping, mainVars>>

\* validate_config(mapping)
ValidateConfig ==
    /\ op' = [name |-> "validate_config", arg |-> mapping]
    /\ ret' = PyBool(validate_config(mapping))
    /\ exc' = "None"
    /\ UNCHANGED <<configVars, mapping, mainVars>>

\* mapping[k] = v, by the caller that owns the dict
SetItem ==
    /\ \E k \in Keys, v \in Values :
        mapping' = [x \in DOMAIN mapping \cup {k} |->
                        IF x = k THEN v ELSE mapping[x]]
    /\ UNCHANGED <<configVars, op, ret, exc, mainVars>>

\* del mapping[k], by the caller that owns the dict
DelItem ==
    /\ \E k \in DOMAIN mapping :
        mapping' = [x \in DOMAIN mapping \ {k} |-> mapping[x]]
    /\ UNCHANGED <<configVars, op, ret, exc, mainVars>>

-----------------------------------------------------------------------------
(* src/main.py *)

Digits == <<"0", "1", "2", "3", "4", "5", "6", "7", "8", "9">>

\* str(n) of a non-negative int: its decimal digits
RECURSIVE IntToStr(_)
IntToStr(n) ==
    IF n < 10 THEN Digits[n + 1]
    ELSE IntToStr(n \div 10) \o Digits[(n % 10) + 1]

\* str(b) of a bool
BoolToStr_mut_lower(b) == IF b THEN "true" ELSE "false"
BoolToStr(b) == IF b THEN "True" ELSE "False"

\* line 9: config = load_config()
Main9 ==
    /\ main_pc = "l9"
    /\ heap' = heap @@ (MainRef :> load_config)
    /\ origin' = origin @@ (MainRef :> "load_config")
    /\ main_config' = MainRef
    /\ main_pc' = "l10"
    /\ UNCHANGED <<op, ret, exc, mapping, message, stdout, exit_code>>

\* line 10: message = format_message(f"Application starting on {host}:{port}")
Main10 ==
    /\ main_pc = "l10"
    /\ message' = format_message("Application starting on "
                                    \o heap[main_config].host \o ":"
                                    \o IntToStr(heap[main_config].port), << >>)
    /\ main_pc' = "l11"
    /\ UNCHANGED <<configVars, op, ret, exc, mapping, main_config, stdout,
                   exit_code>>

\* line 11: print(message)
Main11 ==
    /\ main_pc = "l11"
    /\ stdout' = Append(stdout, message)
    /\ main_pc' = "l12"
    /\ UNCHANGED <<configVars, op, ret, exc, mapping, main_config, message,
                   exit_code>>

\* line 12: print(f"Environment: {config.environment}")
Main12 ==
    /\ main_pc = "l12"
    /\ stdout' = Append(stdout, "Environment: " \o heap[main_config].environment)
    /\ main_pc' = "l13"
    /\ UNCHANGED <<configVars, op, ret, exc, mapping, main_config, message,
                   exit_code>>

\* line 13: print(f"Debug mode: {config.debug}")
Main13 ==
    /\ main_pc = "l13"
    /\ stdout' = Append(stdout, "Debug mode: " \o BoolToStr(heap[main_config].debug))
    /\ main_pc' = "return"
    /\ UNCHANGED <<configVars, op, ret, exc, mapping, main_config, message,
                   exit_code>>

\* main() returns None and the interpreter exits with status 0
MainReturn ==
    /\ main_pc = "return"
    /\ main_pc' = "exited"
    /\ exit_code' = 0
    /\ UNCHANGED <<configVars, op, ret, exc, mapping, main_config, message,
                   stdout>>

Main == Main9 \/ Main10 \/ Main11 \/ Main12 \/ Main13 \/ MainReturn

-----------------------------------------------------------------------------

Init ==
    /\ heap = << >>
    /\ origin = << >>
    /\ op = [name |-> "None"]
    /\ ret = PyNone
    /\ exc = "None"
    /\ mapping = << >>
    /\ main_pc = "l9"
    /\ main_config = NoRef
    /\ message = ""
    /\ stdout = << >>
    /\ exit_code = -1

\* The Config class, the loader and the entry point
Next ==
    \/ NewConfig
    \/ LoadConfig
    \/ IsProduction
    \/ SetAttr
    \/ Main9
    \/ Main10
    \/ Main11
    \/ Main12
    \/ Main13
    \/ MainReturn

Spec == Init /\ [][Next]_vars

\* main() is straight-line code: it takes its next step until it has exited
FairSpec == Spec /\ WF_vars(Main)

\* format_message
NextFormat ==
    \/ FormatMessage

SpecFormat == Init /\ [][NextFormat]_vars

\* validate_config and the caller's dict
NextValidate ==
    \/ ValidateConfig
    \/ SetItem
    \/ DelItem

SpecValidate == Init /\ [][NextValidate]_vars

-----------------------------------------------------------------------------
(* Properties *)

\* C1: every assignment to a field of a constructed Config, whichever the
\* field and whichever the attempt, raises an AttributeError; none returns
\* normally.
C1_AssignmentRaises ==
    op.name = "__setattr__" =>
        /\ op.field \in Fields
        /\ exc # "None"
        /\ IsSubclass(exc, "AttributeError")

C1_Witness ==
    /\ op.name = "__setattr__"
    /\ op.field = "host"
    /\ origin[op.ref] = "Config"
    /\ exc = "FrozenInstanceError"

\* C2: no step changes a field of a Config that has been constructed: not a
\* call of is_production, not a failed assignment, not a line of main.
C2_FieldsNeverChange ==
    [][\A i \in DOMAIN heap :
          /\ i \in DOMAIN heap'
          /\ heap'[i].debug = heap[i].debug
          /\ heap'[i].environment = heap[i].environment
          /\ heap'[i].port = heap[i].port
          /\ heap'[i].host = heap[i].host]_vars

C2_Witness ==
    /\ op.name = "__setattr__"
    /\ op.ref = MainRef
    /\ op.field = "environment"
    /\ op.value = "production"
    /\ heap[op.ref].environment = "development"
    /\ main_pc = "exited"

\* C3: each field of a newly constructed Config is the argument supplied for
\* it, or its default (False, "development", 8000, "127.0.0.1") when none is.
C3_ConstructedFields ==
    op.name = "Config" =>
        LET self == heap[op.ref]
            kw == op.kwargs
        IN  /\ "debug" \in DOMAIN kw => self.debug = kw["debug"]
            /\ "debug" \notin DOMAIN kw => self.debug = FALSE
            /\ "environment" \in DOMAIN kw => self.environment = kw["environment"]
            /\ "environment" \notin DOMAIN kw => self.environment = "development"
            /\ "port" \in DOMAIN kw => self.port = kw["port"]
            /\ "port" \notin DOMAIN kw => self.port = 8000
            /\ "host" \in DOMAIN kw => self.host = kw["host"]
            /\ "host" \notin DOMAIN kw => self.host = "127.0.0.1"

C3_Witness ==
    /\ op.name = "Config"
    /\ DOMAIN op.kwargs = {"port"}
    /\ heap[op.ref] = [debug |-> FALSE, environment |-> "development",
                       port |-> 9000, host |-> "127.0.0.1"]

\* C4: is_production() returns normally, and returns True exactly when the
\* environment is the string "production".
C4_IsProduction ==
    op.name = "is_production" =>
        /\ exc = "None"
        /\ ret \in {PyBool(TRUE), PyBool(FALSE)}
        /\ ret = PyBool(TRUE) <=> heap[op.ref].environment = "production"
        /\ heap[op.ref].environment \in {"development", "staging", "test"}
              => ret = PyBool(FALSE)

C4_Witness ==
    /\ op.name = "is_production"
    /\ heap[op.ref].environment = "staging"
    /\ ret = PyBool(FALSE)

\* C5: every Config returned by load_config holds the four defaults, every
\* call of load_config returns normally, and is_production() is False on a
\* loaded Config.
C5_LoadedIsDefault ==
    /\ \A i \in DOMAIN heap :
          origin[i] = "load_config" =>
              heap[i] = [debug |-> FALSE, environment |-> "development",
                         port |-> 8000, host |-> "127.0.0.1"]
    /\ op.name = "load_config" => exc = "None" /\ origin[op.ref] = "load_config"
    /\ (op.name = "is_production" /\ origin[op.ref] = "load_config")
          => ret = PyBool(FALSE)

C5_Witness ==
    /\ op.name = "is_production"
    /\ origin[op.ref] = "load_config"
    /\ op.ref # MainRef
    /\ main_config = MainRef
    /\ ret = PyBool(FALSE)

\* C6: validate_config returns normally, and returns True exactly when the
\* dict has both the key "debug" and the key "port".
C6_ValidateIffBothKeys ==
    op.name = "validate_config" =>
        /\ exc = "None"
        /\ ret \in {PyBool(TRUE), PyBool(FALSE)}
        /\ ret = PyBool(TRUE) <=>
              ("debug" \in DOMAIN op.arg /\ "port" \in DOMAIN op.arg)

C6_Witness ==
    /\ op.name = "validate_config"
    /\ DOMAIN op.arg = {"debug"}
    /\ ret = PyBool(FALSE)

\* C7: format_message returns normally the prefix ("INFO" when none is
\* given), then a colon and a space, then the message, and changes nothing
\* else.
C7_FormatMessage ==
    op.name = "format_message" =>
        LET p == IF "prefix" \in DOMAIN op.kwargs THEN op.kwargs["prefix"]
                 ELSE "INFO"
            m == op.message
            r == ret.str
        IN  /\ exc = "None"
            /\ Len(r) = Len(p) + 2 + Len(m)
            /\ SubSeq(r, 1, Len(p)) = p
            /\ SubSeq(r, Len(p) + 1, Len(p) + 1) = ":"
            /\ SubSeq(r, Len(p) + 2, Len(p) + 2) = " "
            /\ SubSeq(r, Len(p) + 3, Len(r)) = m
            /\ heap = << >> /\ mapping = << >> /\ stdout = << >>

C7_Witness ==
    /\ op.name = "format_message"
    /\ op.message = ""
    /\ op.kwargs = << >>
    /\ ret = PyStr("INFO: ")

\* C8: main writes the startup line, the environment line and the
\* debug-mode line, in this order and nothing else, and then exits with
\* status 0; it never exits with another status.
ExpectedOutput ==
    <<"INFO: Application starting on 127.0.0.1:8000",
      "Environment: development",
      "Debug mode: False">>

LinesWritten ==
    CASE main_pc \in {"l9", "l10", "l11"} -> 0
      [] main_pc = "l12" -> 1
      [] main_pc = "l13" -> 2
      [] main_pc \in {"return", "exited"} -> 3

C8_MainOutput ==
    /\ [](/\ stdout = SubSeq(ExpectedOutput, 1, LinesWritten)
          /\ (main_pc = "exited" => exit_code = 0)
          /\ (main_pc # "exited" => exit_code = -1))
    /\ <>(main_pc = "exited")

C8_Witness ==
    /\ main_pc = "exited"
    /\ stdout = ExpectedOutput
    /\ exit_code = 0

\* C9: the environment of every constructed Config is one of "development",
\* "staging" and "production".
C9_EnvironmentRestricted ==
    \A i \in DOMAIN heap :
        heap[i].environment \in {"development", "staging", "production"}

\* C10: over successive calls of validate_config, a True result stays True
\* when the dict has only gained keys or had values changed, the result is
\* False whenever "debug" or "port" is missing, and the call leaves the dict
\* as it was.
C10_ValidateIgnoresExtras ==
    [][op'.name = "validate_config" =>
          /\ op' # op => (mapping' = mapping /\ op'.arg = mapping)
          /\ (/\ op.name = "validate_config"
              /\ ret = PyBool(TRUE)
              /\ DOMAIN op.arg \subseteq DOMAIN op'.arg) => ret' = PyBool(TRUE)
          /\ ("debug" \notin DOMAIN op'.arg \/ "port" \notin DOMAIN op'.arg)
                => ret' = PyBool(FALSE)]_vars

C10_Witness ==
    /\ op.name = "validate_config"
    /\ DOMAIN op.arg = {"debug", "port", "extra"}
    /\ op.arg["debug"] = PyNone
    /\ op.arg["port"] = PyStr("value")
    /\ ret = PyBool(TRUE)

====
